---- MODULE Spec2Model ----
(***************************************************************************)
(* A model of the dependency resolver of pex: ResolvableSet (the per-name  *)
(* bookkeeping of compatible packages) and Resolver.resolve (the two-phase *)
(* loop that narrows the compatible sets and expands the requirements of   *)
(* the selected distributions), as written in src/pex/resolver.py.         *)
(*                                                                         *)
(* The model follows the values the code computes.  Names that the module  *)
(* leaves unbound (the `resolvable_set` local of resolve, the `cache`      *)
(* arguments of Resolver.__init__, `self._distributions`) are read as the  *)
(* objects the surrounding code evidently means them to be.                *)
(***************************************************************************)
EXTENDS Integers, Sequences, FiniteSets, TLC

\* ------------------------------------------------------------------ bounds
MaxCatalog == 2     \* packages an index holds
MaxCache == 1       \* packages the cache directory holds before the resolve
MaxInput == 2       \* resolvables handed to resolve()
MaxMerges == 2      \* direct calls of ResolvableSet.merge by a client
MaxList == 2        \* packages in the list a client hands to merge
MaxRounds == 3      \* Phase B rounds followed before the model stops looking
MaxThreads == 2     \* worker threads of a Crawler
MaxSeeds == 2       \* links handed to Crawler.crawl
MaxHrefs == 1       \* links on one page
MaxRels == 1        \* rel links on one page
MaxFetchers == 2    \* processes in Context.fetch for one link at a time
MaxChunks == 2      \* chunks copyfileobj copies the content of the link in
MaxBuilds == 2      \* direct calls of Resolver.build by a client
MaxFound == 2       \* package links a crawl hands to Iterator.iter
MaxName == 2        \* characters of a project name as written
MaxAllowed == 1     \* calls of allow_external on one builder
MaxBody == 2        \* bytes of the body of a response
MaxLength == 2      \* the length a reader passes to read()
MaxItems == 3       \* strings handed to resolvables_from_iterable
MaxAtoms == 3       \* operands of an and/or chain in a marker expression
MaxRootLines == 3   \* lines of the requirements file that is parsed
MaxNestedLines == 2 \* lines of a requirements file named by a -r line
MaxInstalled == 1   \* files in the install cache before the first translate()
MaxTranslations == 2 \* calls of translate() by a client
MaxTokens == 3      \* tokens of an expression handed to evaluate()

\* ------------------------------------------------------------------ values
Names == {"foo", "bar"}
Extras == {"ext"}
Versions == {1, 2}

\* A Package: a link to a distribution file.  Source packages are compatible
\* with every interpreter; an Egg is compatible when its tags match
\* (foreign = FALSE).  Two links to the same file name at different places
\* (the index: local = FALSE, the cache directory: local = TRUE) are
\* different packages.
Packages ==
  { p \in [name: Names, version: Versions, variant: {"Source", "Egg"},
           foreign: BOOLEAN, local: BOOLEAN] :
      p.variant = "Source" => ~p.foreign }

\* The files of this world: sdists, and eggs built for another interpreter.
\* (The eggs a build leaves in the cache directory are native.)
Offered == {p \in Packages : p.variant = "Egg" => p.foreign}

\* A ResolvableRequirement: project name, version specifier (0: any version,
\* v > 0: "== v") and extras.
Resolvables == [name: Names, spec: {0} \cup Versions, extras: SUBSET Extras]

\* the resolvables resolve() is called with: requirement strings without extras
Requested == {r \in Resolvables : r.extras = {}}

\* Package.satisfies(req)
satisfies(p, req) ==
  p.name = req.name /\ (req.spec = 0 \/ p.version = req.spec)

\* Package.compatible(identity, platform) for the target of the resolve
compatible(p) == p.variant = "Source" \/ ~p.foreign

\* requirement_is_exact(req)
exact(r) == r.spec # 0

\* Distribution.requires(extras=...) of the distribution built from a
\* package: the metadata of the projects of this world.  foo 1 and bar 1
\* require each other (a cycle); foo 2 requires bar == 1 under [ext].
Requires(p, extras) ==
  CASE p.name = "foo" /\ p.version = 1 ->
         <<[name |-> "bar", spec |-> 0, extras |-> {}]>>
    [] p.name = "bar" /\ p.version = 1 ->
         <<[name |-> "foo", spec |-> 0, extras |-> {}]>>
    [] p.name = "foo" /\ p.version = 2 /\ "ext" \in extras ->
         <<[name |-> "bar", spec |-> 1, extras |-> {}]>>
    [] OTHER -> <<>>

\* ------------------------------------------------------------------ helpers
Range(s) == {s[i] : i \in DOMAIN s}

\* a dict assignment d[k] = v
Put(d, k, v) == [x \in DOMAIN d \cup {k} |-> IF x = k THEN v ELSE d[x]]

\* every list holding the members of S once each
Orderings(S) ==
  {s \in [1..Cardinality(S) -> S] : Range(s) = S}

RECURSIVE SelectSeq2(_, _)
\* [x for x in s if x in S]
SelectSeq2(s, S) ==
  IF s = <<>> THEN <<>>
  ELSE IF Head(s) \in S THEN <<Head(s)>> \o SelectSeq2(Tail(s), S)
       ELSE SelectSeq2(Tail(s), S)


\* ------------------------------------------------------------------ iterator
\* Iterator.DEFAULT_PACKAGE_PRECEDENCE
DEFAULT_PACKAGE_PRECEDENCE == <<"Wheel", "Egg", "Source">>

\* Iterator.package_type_precedence(package, precedence): the rank of the
\* package's type in the reversed tuple, -1 for a type that is not in it
PackageTypePrecedence(package, precedence) ==
  IF \E i \in DOMAIN precedence : precedence[i] = package.variant
  THEN Len(precedence)
         - (CHOOSE i \in DOMAIN precedence : precedence[i] = package.variant)
  ELSE -1

\* Iterator.package_type_precedence with the default precedence
package_type_precedence(p) ==
  PackageTypePrecedence(p, DEFAULT_PACKAGE_PRECEDENCE)

\* Iterator.package_precedence: (version, type rank, local) as one number
package_precedence(p) ==
  4 * p.version + 2 * package_type_precedence(p) + (IF p.local THEN 1 ELSE 0)

\* Iterator.iter(req) over the links a crawl of `links` returns: the packages
\* that satisfy req, sorted by descending precedence.  sorted() is stable, so
\* packages of equal precedence keep the order the crawler returned them in,
\* which is any order: every such list is a possible result.
IteratorIter(links, req) ==
  {s \in Orderings({p \in links : satisfies(p, req)}) :
     \A i, j \in DOMAIN s :
       i < j => package_precedence(s[i]) >= package_precedence(s[j])}

\* StaticIterator(packages).iter(req)
StaticIteratorIter(existing, req) ==
  SelectSeq2(existing, {p \in Range(existing) : satisfies(p, req)})

\* Resolver.filter_packages_by_interpreter
filter_packages_by_interpreter(pkgs) ==
  SelectSeq2(pkgs, {p \in Range(pkgs) : compatible(p)})

\* Resolver.filter_packages_by_ttl: remote packages, and local packages
\* whose file is younger than the ttl (the set fresh)
filter_packages_by_ttl(pkgs, fresh) ==
  SelectSeq2(pkgs, {p \in Range(pkgs) : ~p.local \/ p \in fresh})

\* Resolver.__package_iterator: the lists it may return
package_iterator(r, existing, catalog) ==
  LET found == IF existing # <<>> THEN {StaticIteratorIter(existing, r)}
               ELSE IteratorIter(catalog, r)
  IN {filter_packages_by_interpreter(s) : s \in found}

package_iterator_uncached(r, existing, catalog, cache, ttlSet, fresh) ==
  package_iterator(r, existing, catalog)

\* Resolver.__package_iterator_cached: the lists it may return
package_iterator_cached(r, existing, catalog, cache, ttlSet, fresh) ==
  UNION { IF s # <<>> /\ exact(r) THEN {s}
          ELSE IF s # <<>> /\ ttlSet /\ filter_packages_by_ttl(s, fresh) # <<>>
               THEN {filter_packages_by_ttl(s, fresh)}
          ELSE package_iterator(r, existing, catalog)
        : s \in IteratorIter(cache, r) }

\* ------------------------------------------------------------------ ResolvableSet
\* the set of packages merge() records for the name:
\* set(packages).intersection(self.__packages[resolvable.name])
MergedSetUnion(old, pkgs) == Range(pkgs) \cup Range(old)
MergedSetNew(old, pkgs) == Range(pkgs) \ Range(old)
MergedSet(old, pkgs) == Range(pkgs) \cap Range(old)

\* sorted(...) of packages: Package defines no order of its own, so the
\* list may come out in any order
Sorted(S) == Orderings(S)

\* self.__packages[name] of a defaultdict(list)
PackagesOf(packages, name) ==
  IF name \in DOMAIN packages THEN packages[name] ELSE <<>>

\* ResolvableSet.get(name)
Get(packages, name) == PackagesOf(packages, name)

\* the list object get(name) hands out: list(...) builds a new list from the
\* recorded one (or from the default []), so the caller never holds the
\* recorded list itself
GetObjectRecorded(packages, name) ==
  IF name \in DOMAIN packages THEN "recorded" ELSE "new"
GetObject(packages, name) == "new"

\* the union of the extras of the resolvables of a name, which is what
\* extras(name) is meant to return
ExtrasOf(resolvables, name) == UNION {r.extras : r \in resolvables[name]}

\* ResolvableSet.extras(name) as written: set.union is the unbound method
\* and gets one argument, a generator, where it wants a set as its first;
\* the call raises TypeError whatever the generator yields
ExtrasRaises(resolvables, name) == TRUE

\* merge() reaches its raise statement when the recorded list is empty
MergeRaises(new) == new = <<>>

\* the exception that leaves merge() then (lines 123-124).  The message is
\* built first, from map(str, resolvable) for each resolvable of the name: a
\* resolvable is not iterable, so map() fails and its TypeError is what the
\* caller gets; Unsatisfiable is never constructed.
MergeException(names) == "TypeError"


\* ------------------------------------------------------------------ state
VARIABLES
  index,                 \* the packages the configured fetchers lead to
  cache_dir,             \* the package files in the cache directory
  cache_ttl,             \* TRUE when a cache ttl is configured
  cache_fresh,           \* the cached files younger than the ttl
  requested,             \* the list resolve() was called with
  rs_resolvables,        \* ResolvableSet.__resolvables: name -> resolvables
  rs_packages,           \* ResolvableSet.__packages: name -> list of packages
  last,                  \* the last merge() call and its outcome
  calls,                 \* merge() calls made by the client of the set
  pc,                    \* where resolve() is
  work,                  \* the local list `resolvables` of resolve()
  processed_resolvables, \* the local set of resolve()
  processed_packages,    \* the local dict of resolve()
  distributions,         \* the local list of resolve()
  translated,            \* Resolver._distributions: the packages translated
  selection,             \* the dict select() returned for this Phase B
  todo,                  \* the names of it not yet visited by the for loop
  rounds,                \* Phase B rounds completed
  error,                 \* the exception resolve() raised, or "none"
  cr_page,               \* the web: page -> what reading it gives
  cr_seeds,              \* the links Crawler.crawl was called with
  cr_follow,             \* the follow_links argument of Crawler.crawl
  cr_threads,            \* the worker threads of the Crawler
  cr_queue,              \* the Queue of crawl(): the links waiting
  cr_unfinished,         \* Queue.unfinished_tasks: puts without task_done
  cr_seen,               \* the set `seen` of crawl()
  cr_links,              \* the set `links` of crawl()
  cr_worker,             \* thread -> where it is in execute(), and its locals
  cr_fetches,            \* page -> number of times crawl(context, link) ran
  cr_converged,          \* the Event `converged`
  cr_main,               \* where the thread that called crawl() is
  ft_files,              \* the directory `into`: file name -> chunks it holds
  ft_pc,                 \* process -> where it is in Context.fetch
  it_builder,            \* ResolverOptionsBuilder._precedence
  it_precedence,         \* Iterator._precedence
  it_via,                \* how the Iterator was made: "options" or "direct"
  it_hrefs,              \* the package links the crawl returns, in its order
  it_req,                \* the requirement iter() is called with
  it_out,                \* the list iter() yields
  it_pc,                 \* where the client of the options and iterator is
  ex_allow_all,          \* ResolverOptionsBuilder._allow_all_external
  ex_allow,              \* ResolverOptionsBuilder._allow_external
  ex_asked,              \* the names allow_external was called with, as written
  ex_name,               \* the project name of the requirement, as written
  ex_follow,             \* the follow_links the crawl for the requirement got
  ex_pc,                 \* where the client of the options is
  sf_iterator,           \* StreamFilelike._iterator: the chunks still to come
  sf_bytes,              \* StreamFilelike._bytes
  sf_hash,               \* what StreamFilelike._hash has been fed
  sf_md5,                \* link.md5: the content whose md5 the link declares
  sf_body,               \* the body of the response
  sf_length,             \* the length the reader passes to read(); 0: None
  sf_got,                \* what the read() calls have returned, joined
  sf_pc,                 \* "reading", "eof" or "raised"
  rv_iterable,           \* the strings resolvables_from_iterable has yet to map
  rv_out,                \* the resolvables it has made: <<form, string>>
  rv_pc,                 \* "map", "returned" or "raised"
  mk_tokens,             \* the token stream eval_marker is called with
  mk_offset,             \* the local `offset` of _split_statements
  mk_statements,         \* the list `statements`
  mk_evaluated,          \* the positions eval_expr was called at
  mk_k,                  \* the loop variable of _reduce_statements
  mk_value,              \* what eval_marker returned
  mk_pc,                 \* "split", "reduce" or "done"
  rq_files,              \* the requirements files: name -> lines
  rq_stack,              \* the from_file calls under way: <<file, line>>
  rq_resolvables,        \* RequirementsTxt._resolvables
  rq_fetchers,           \* RequirementsTxt._fetchers
  rq_last,               \* the line _process_one_line handled last
  rq_before,             \* _fetchers before that line
  bd_last,               \* the last call of build() by a client, for the claims
  rs_query,              \* the last get(), extras() or select() of a client
  tr_cache,              \* the files in SourceTranslator._install_cache
  tr_placed,             \* the files translate() has put there
  tr_package,            \* the package translate() is called with
  tr_dist,               \* dist_path: what installer.bdist() built
  tr_calls,              \* the calls of translate() so far
  tr_result,             \* what the last translate() returned
  tr_pc                  \* where translate() is

world == <<index, cache_ttl, requested>>
cache == <<cache_dir, cache_fresh>>
rs == <<rs_resolvables, rs_packages, last>>
locals == <<work, processed_resolvables, processed_packages, distributions,
            translated, selection, todo, rounds, error>>
resolver == <<world, cache, rs, calls, pc, locals>>
crawler == <<cr_page, cr_seeds, cr_follow, cr_threads, cr_queue, cr_unfinished, cr_seen,
             cr_links, cr_worker, cr_fetches, cr_converged, cr_main>>
fetcher == <<ft_files, ft_pc>>
iterator == <<it_builder, it_precedence, it_via, it_hrefs, it_req, it_out,
              it_pc>>
externals == <<ex_allow_all, ex_allow, ex_asked, ex_name, ex_follow, ex_pc>>
stream == <<sf_iterator, sf_bytes, sf_hash, sf_md5, sf_body, sf_length, sf_got,
            sf_pc>>
dispatch == <<rv_iterable, rv_out, rv_pc>>
markers == <<mk_tokens, mk_offset, mk_statements, mk_evaluated, mk_k, mk_value,
             mk_pc>>
reqfile == <<rq_files, rq_stack, rq_resolvables, rq_fetchers, rq_last,
             rq_before>>
translating == <<tr_cache, tr_placed, tr_package, tr_dist, tr_calls, tr_result,
                 tr_pc>>
others == <<rs_query, translating>>
rest == <<externals, stream, dispatch, markers, reqfile, bd_last, others>>
vars == <<resolver, crawler, fetcher, iterator, rest>>

NoMerge ==
  [called |-> FALSE, resolvable |-> [name |-> "foo", spec |-> 0, extras |-> {}],
   packages |-> <<>>, before |-> <<>>, beforeR |-> [n \in Names |-> {}],
   prev |-> <<FALSE>>, error |-> "none"]

\* ResolvableSet.__init__
FreshSet ==
  /\ rs_resolvables = [n \in Names |-> {}]
  /\ rs_packages = <<>>
  /\ last = NoMerge

BoundedSubsets(S, k) == {T \in SUBSET S : Cardinality(T) <= k}

BoundedSeqs(S, k) == UNION {[1..n -> S] : n \in 0..k}

\* ResolvableSet.merge(resolvable, packages)
Merge(r, pkgs) ==
  LET old == PackagesOf(rs_packages, r.name)
      names == [rs_resolvables EXCEPT ![r.name] = @ \cup {r}]
  IN \E new \in Sorted(MergedSet(old, pkgs)) :
       /\ rs_resolvables' = names
       /\ rs_packages' = Put(rs_packages, r.name, new)
       /\ last' = [called |-> TRUE, resolvable |-> r, packages |-> pkgs,
                   before |-> rs_packages, beforeR |-> rs_resolvables,
                   prev |-> IF last.called
                            THEN <<TRUE, last.resolvable, last.packages>>
                            ELSE <<FALSE>>,
                   error |-> IF MergeRaises(new)
                             THEN MergeException(names[r.name]) ELSE "none"]

\* ResolvableSet.select()
Select(packages) == [n \in DOMAIN packages |-> Head(packages[n])]

\* select() takes packages[0] of every recorded list: an empty list makes it
\* raise IndexError
SelectRaises(packages) == \E n \in DOMAIN packages : packages[n] = <<>>

\* what Context.fetch and the translator leave in the cache directory for a
\* package: the fetched file and, for a source package, the built egg
LocalCopy(p) == [p EXCEPT !.local = TRUE]
BuiltEgg(p) == [p EXCEPT !.local = TRUE, !.variant = "Egg", !.foreign = FALSE]
Materialized(p, ok) ==
  IF ok /\ p.variant = "Source" THEN {LocalCopy(p), BuiltEgg(p)}
  ELSE {LocalCopy(p)}

\* the cached files whose mtime build() sets to now: the local copy of a
\* remote package (os.utime, line 295) and the egg the build put there
Touched(p, ok) ==
  (IF p.local THEN {} ELSE {LocalCopy(p)})
    \cup (IF ok /\ p.variant = "Source" THEN {BuiltEgg(p)} ELSE {})

\* the outcomes of self._translator.translate(local_package): a binary
\* package translates when it is compatible, a source build may fail
TranslateOutcomes(p) ==
  IF p.variant = "Source" THEN {TRUE, FALSE} ELSE {compatible(p)}

\* the outcomes of context.fetch(package, into=cache): a file the directory
\* holds is returned as it is (http.py:62-64), a local file is copied without
\* a checksum (http.py:127-128), and the stream of a remote link may fail its
\* checksum (http.py:107-110)
FetchOutcomes(p, dir) ==
  IF p.local \/ LocalCopy(p) \in dir THEN {"fetched"}
  ELSE {"fetched", "ContextError"}

\* a build() that takes whatever translate() returned
UntranslateableNever(ok) == FALSE

\* `if dist is None` and `if not distribution_compatible(...)` of build()
Untranslateable(ok) == ~ok


\* no crawl is under way
NoCrawl ==
  /\ cr_page = <<>>
  /\ cr_seeds = <<>>
  /\ cr_follow = FALSE
  /\ cr_threads = {}
  /\ cr_queue = <<>>
  /\ cr_unfinished = 0
  /\ cr_seen = {}
  /\ cr_links = {}
  /\ cr_worker = <<>>
  /\ cr_fetches = <<>>
  /\ cr_converged = FALSE
  /\ cr_main = "none"

\* no fetch is under way
NoFetch ==
  /\ ft_files = <<>>
  /\ ft_pc = <<>>

\* no options builder or iterator is in use
NoIterator ==
  /\ it_builder = <<>>
  /\ it_precedence = <<>>
  /\ it_via = "none"
  /\ it_hrefs = <<>>
  /\ it_req = [name |-> "foo", spec |-> 0, extras |-> {}]
  /\ it_out = <<>>
  /\ it_pc = "none"

\* no options are asked about external links
NoExternals ==
  /\ ex_allow_all = FALSE
  /\ ex_allow = {}
  /\ ex_asked = {}
  /\ ex_name = <<>>
  /\ ex_follow = FALSE
  /\ ex_pc = "none"

\* no StreamFilelike is open
NoStream ==
  /\ sf_iterator = <<>>
  /\ sf_bytes = <<>>
  /\ sf_hash = <<>>
  /\ sf_md5 = <<>>
  /\ sf_body = <<>>
  /\ sf_length = 0
  /\ sf_got = <<>>
  /\ sf_pc = "none"

\* no string is being turned into a Resolvable
NoDispatch ==
  /\ rv_iterable = <<>>
  /\ rv_out = <<>>
  /\ rv_pc = "none"

\* no marker is being evaluated
NoMarkers ==
  /\ mk_tokens = <<>>
  /\ mk_offset = 0
  /\ mk_statements = <<>>
  /\ mk_evaluated = {}
  /\ mk_k = 0
  /\ mk_value = FALSE
  /\ mk_pc = "none"

\* no requirements file is being read
NoReqfile ==
  /\ rq_files = <<>>
  /\ rq_stack = <<>>
  /\ rq_resolvables = <<>>
  /\ rq_fetchers = <<>>
  /\ rq_last = <<>>
  /\ rq_before = <<>>

\* no client has asked the set anything
NoQuery == [op |-> "none"]

\* no translate() is under way
NoTranslate ==
  /\ tr_cache = {}
  /\ tr_placed = {}
  /\ tr_package = <<>>
  /\ tr_dist = <<>>
  /\ tr_calls = 0
  /\ tr_result = "none"
  /\ tr_pc = "none"

NoOthers ==
  /\ rs_query = NoQuery
  /\ NoTranslate

\* no client has called build()
NoBuild == [called |-> FALSE]

NoRest ==
  /\ NoExternals
  /\ NoStream
  /\ NoDispatch
  /\ NoMarkers
  /\ NoReqfile
  /\ bd_last = NoBuild
  /\ NoOthers

\* ------------------------------------------------------------------ resolve()
\* `if package not in self._distributions:` of build() (line 287): a package
\* whose distribution is in the map is not fetched or translated again
MemoizedNever(package, memo) == FALSE
Memoized(package, memo) == package \in memo

\* the locals of Resolver.resolve at its start (lines 328-331)
ResolveLocals ==
  /\ processed_resolvables = {}
  /\ processed_packages = <<>>
  /\ distributions = <<>>
  /\ translated = {}
  /\ selection = <<>>
  /\ todo = {}
  /\ rounds = 0
  /\ error = "none"

\* an exception inside resolve(): nothing in resolve() catches it, so it
\* leaves the call (a handler inside the loops would let them go on)
RaiseCaught(kind) ==
  /\ pc' = pc
  /\ error' = kind
Raise(kind) ==
  /\ pc' = "raised"
  /\ error' = kind

\* `while resolvables:` of line 333, and the return of line 353
OuterLoop ==
  /\ UNCHANGED <<world, cache, rs, calls, locals>>
  /\ pc' = IF work = <<>> THEN "returned"
           ELSE IF rounds >= MaxRounds THEN "cut"
           ELSE "phaseA"

\* one iteration of the inner `while resolvables:` (lines 334-341); when the
\* list is drained, line 343 takes the snapshot resolvable_set.select()
PhaseA ==
  IF work = <<>>
  THEN /\ UNCHANGED <<world, cache, rs, calls, work, processed_resolvables,
                      processed_packages, distributions, translated, rounds>>
       /\ IF SelectRaises(rs_packages)
          THEN /\ Raise("IndexError")
               /\ UNCHANGED <<selection, todo>>
          ELSE /\ pc' = "phaseB"
               /\ selection' = Select(rs_packages)
               /\ todo' = DOMAIN rs_packages
               /\ UNCHANGED error
  ELSE LET r == Head(work) IN
       /\ work' = Tail(work)
       /\ UNCHANGED <<world, cache, calls, processed_packages, distributions,
                      translated, selection, todo, rounds>>
       /\ IF r \in processed_resolvables
          THEN UNCHANGED <<rs, pc, processed_resolvables, error>>
          ELSE /\ \E pkgs \in package_iterator_cached(
                       r, Get(rs_packages, r.name), index, cache_dir,
                       cache_ttl, cache_fresh) : Merge(r, pkgs)
               /\ IF last'.error # "none"
                  THEN /\ Raise(last'.error)
                       /\ UNCHANGED processed_resolvables
                  ELSE /\ processed_resolvables' = processed_resolvables \cup {r}
                       /\ UNCHANGED <<pc, error>>

\* one iteration of the for loop over select().items() (lines 343-351); the
\* dict is visited in any order
PhaseB ==
  IF todo = {}
  THEN /\ pc' = "outer"
       /\ rounds' = rounds + 1
       /\ UNCHANGED <<world, cache, rs, calls, work, processed_resolvables,
                      processed_packages, distributions, translated, selection,
                      todo, error>>
  ELSE \E n \in todo :
       LET package == selection[n] IN
       /\ todo' = todo \ {n}
       /\ UNCHANGED <<world, rs, calls, processed_resolvables,
                      processed_packages, selection, rounds>>
       /\ IF n \in DOMAIN processed_packages
          THEN /\ UNCHANGED <<cache, work, distributions, translated>>
               /\ IF package # processed_packages[n]
                  THEN Raise("Ambiguous")
                  ELSE UNCHANGED <<pc, error>>
          ELSE \* self.build(package), lines 286-304
               IF Memoized(package, translated)
               THEN /\ UNCHANGED <<cache, translated>>
                    /\ IF ExtrasRaises(rs_resolvables, n)
                       THEN /\ Raise("TypeError")
                            /\ UNCHANGED <<work, distributions>>
                       ELSE /\ work' = work \o
                                 Requires(package, ExtrasOf(rs_resolvables, n))
                            /\ distributions' = Append(distributions, package)
                            /\ UNCHANGED <<pc, error>>
               ELSE \E fetched \in FetchOutcomes(package, cache_dir) :
                    IF fetched = "ContextError"
                    THEN /\ Raise("ContextError")
                         /\ UNCHANGED <<cache, work, distributions, translated>>
                    ELSE
                    \E ok \in TranslateOutcomes(package) :
                    /\ cache_dir' = cache_dir \cup Materialized(package, ok)
                    /\ cache_fresh' = IF cache_ttl
                                      THEN cache_fresh \cup Touched(package, ok)
                                      ELSE cache_fresh
                    /\ IF Untranslateable(ok)
                       THEN /\ Raise("Untranslateable")
                            /\ UNCHANGED <<work, distributions, translated>>
                       ELSE /\ translated' = translated \cup {package}
                            /\ IF ExtrasRaises(rs_resolvables, n)
                               THEN /\ Raise("TypeError")
                                    /\ UNCHANGED <<work, distributions>>
                               ELSE /\ work' = work \o Requires(package,
                                           ExtrasOf(rs_resolvables, n))
                                    /\ distributions' =
                                         Append(distributions, package)
                                    /\ UNCHANGED <<pc, error>>

\* Resolver.resolve(resolvables): one step of the call
Resolve ==
  /\ UNCHANGED <<crawler, fetcher, iterator, rest>>
  /\ CASE pc = "outer" -> OuterLoop
       [] pc = "phaseA" -> PhaseA
       [] pc = "phaseB" -> PhaseB
       [] OTHER -> FALSE

\* a resolve() call on a new Resolver: any index, cache directory, ttl and
\* list of resolvables within the bounds
Init ==
  /\ index \in BoundedSubsets({p \in Offered : ~p.local}, MaxCatalog)
  /\ cache_dir \in BoundedSubsets({p \in Offered : p.local}, MaxCache)
  /\ cache_ttl \in BOOLEAN
  /\ cache_fresh \in IF cache_ttl THEN {{}, cache_dir} ELSE {{}}
  /\ requested \in BoundedSeqs(Requested, MaxInput)
  /\ FreshSet
  /\ calls = 0
  /\ pc = "outer"
  /\ work = requested
  /\ ResolveLocals
  /\ NoCrawl
  /\ NoFetch
  /\ NoIterator
  /\ NoRest

Next == Resolve

Spec == Init /\ [][Next]_vars

\* resolve() is a sequential loop: it keeps running until it returns or
\* raises.  The calls looked at here are those of a Resolver without a ttl.
InitNoTtl == Init /\ ~cache_ttl

FairSpec == InitNoTtl /\ [][Next]_vars /\ WF_vars(Next)

\* ------------------------------------------------------------------ the set alone
\* a client of ResolvableSet that calls merge() with any resolvable and any
\* list of packages of its name, and goes on after an Unsatisfiable
MergeCall ==
  /\ pc = "client"
  /\ calls < MaxMerges
  /\ \E r \in Resolvables :
       \E S \in BoundedSubsets({p \in Offered : ~p.local /\ p.name = r.name},
                               MaxList) :
         Merge(r, CHOOSE pkgs \in Orderings(S) : TRUE)
  /\ calls' = calls + 1
  /\ UNCHANGED <<world, cache, pc, locals, crawler, fetcher, iterator, rest>>

\* what the client changes of the set's state and of the other components
\* when it only asks the set something
Asked ==
  UNCHANGED <<world, cache, calls, pc, locals, crawler, fetcher, iterator,
              externals, stream, dispatch, markers, reqfile, bd_last,
              translating>>

\* the client calls get(name) and keeps the list it is given
GetCall(name) ==
  /\ pc = "client"
  /\ rs_query' = [op |-> "get", name |-> name,
                  object |-> GetObject(rs_packages, name),
                  returned |-> Get(rs_packages, name),
                  value |-> Get(rs_packages, name),
                  mutated |-> FALSE, at |-> calls]
  /\ UNCHANGED rs
  /\ Asked

\* the client changes the list it was given: it appends a package of the
\* name to it.  A list that is the recorded list changes in the set too.
MutateGot ==
  /\ pc = "client"
  /\ rs_query.op = "get"
  /\ ~rs_query.mutated
  /\ \E p \in {q \in Offered : ~q.local /\ q.name = rs_query.name} :
       LET new == Append(rs_query.value, p) IN
       /\ rs_query' = [rs_query EXCEPT !.value = new, !.mutated = TRUE]
       /\ IF rs_query.object = "recorded"
          THEN rs_packages' = Put(rs_packages, rs_query.name, new)
          ELSE UNCHANGED rs_packages
  /\ UNCHANGED <<rs_resolvables, last>>
  /\ Asked

\* the client calls extras(name)
ExtrasCall(name) ==
  /\ pc = "client"
  /\ rs_query' =
       IF ExtrasRaises(rs_resolvables, name)
       THEN [op |-> "extras", name |-> name, error |-> "TypeError",
             value |-> {}, at |-> calls]
       ELSE [op |-> "extras", name |-> name, error |-> "none",
             value |-> ExtrasOf(rs_resolvables, name), at |-> calls]
  /\ UNCHANGED rs
  /\ Asked

\* the client calls select()
SelectCall ==
  /\ pc = "client"
  /\ rs_query' =
       IF SelectRaises(rs_packages)
       THEN [op |-> "select", error |-> "IndexError", value |-> <<>>,
             at |-> calls]
       ELSE [op |-> "select", error |-> "none",
             value |-> Select(rs_packages), at |-> calls]
  /\ UNCHANGED rs
  /\ Asked

InitSet ==
  /\ index = {}
  /\ cache_dir = {}
  /\ cache_ttl = FALSE
  /\ cache_fresh = {}
  /\ requested = <<>>
  /\ FreshSet
  /\ calls = 0
  /\ pc = "client"
  /\ work = <<>>
  /\ ResolveLocals
  /\ NoCrawl
  /\ NoFetch
  /\ NoIterator
  /\ NoRest

NextSet ==
  \/ MergeCall
  \/ \E name \in Names : GetCall(name)
  \/ MutateGot
  \/ \E name \in Names : ExtrasCall(name)
  \/ SelectCall

SpecSet == InitSet /\ [][NextSet]_vars


\* ------------------------------------------------------------------ build() alone
\* the files a cache directory may hold from earlier runs: fetched sdists
\* and eggs, and the eggs built from sdists
Cached == {p \in Packages : p.local}

\* the file of the distribution translate() returns for a package: the egg
\* built from a source package (translator.py:86-99), the fetched file of a
\* binary package (translator.py:127-131)
DistFile(p) == IF p.variant = "Source" THEN BuiltEgg(p) ELSE LocalCopy(p)

\* a client that calls Resolver.build(package) with packages the iterators
\* yield, and goes on after an Untranslateable
BuildCall ==
  /\ pc = "client"
  /\ calls < MaxBuilds
  /\ calls' = calls + 1
  /\ \E package \in index \cup cache_dir :
       LET Called(fetched, translation) ==
             [called |-> TRUE, package |-> package, fetched |-> fetched,
              translation |-> translation, before |-> distributions,
              memo |-> translated]
       IN
       IF Memoized(package, translated)
       THEN /\ distributions' = Append(distributions, package)
            /\ error' = "none"
            /\ bd_last' = Called("memo", "memo")
            /\ UNCHANGED <<cache, translated>>
       ELSE \E fetched \in FetchOutcomes(package, cache_dir) :
            IF fetched = "ContextError"
            THEN /\ error' = "ContextError"
                 /\ bd_last' = Called(fetched, "memo")
                 /\ UNCHANGED <<cache, distributions, translated>>
            ELSE
            \E ok \in TranslateOutcomes(package) :
            /\ cache_dir' = cache_dir \cup Materialized(package, ok)
            /\ cache_fresh' = IF cache_ttl
                              THEN cache_fresh \cup Touched(package, ok)
                              ELSE cache_fresh
            /\ bd_last' = Called(fetched, IF ok THEN "dist" ELSE "None")
            /\ IF Untranslateable(ok)
               THEN /\ error' = "Untranslateable"
                    /\ UNCHANGED <<distributions, translated>>
               ELSE /\ translated' = translated \cup {package}
                    /\ distributions' = Append(distributions, package)
                    /\ error' = "none"
  /\ UNCHANGED <<world, rs, pc, work, processed_resolvables,
                 processed_packages, selection, todo, rounds, crawler,
                 fetcher, iterator, externals, stream, dispatch, markers,
                 reqfile, others>>

\* a Resolver with a cache directory and a ttl; every file the directory
\* holds is older than the ttl, so cache_fresh is the set of files whose
\* mtime is not earlier than the start
InitBuild ==
  /\ index \in BoundedSubsets({p \in Offered : ~p.local}, MaxCatalog)
  /\ cache_dir \in BoundedSubsets(Cached, MaxCache)
  /\ cache_ttl = TRUE
  /\ cache_fresh = {}
  /\ requested = <<>>
  /\ FreshSet
  /\ calls = 0
  /\ pc = "client"
  /\ work = <<>>
  /\ ResolveLocals
  /\ NoCrawl
  /\ NoFetch
  /\ NoIterator
  /\ NoRest

NextBuild == BuildCall

SpecBuild == InitBuild /\ [][NextBuild]_vars

\* ------------------------------------------------------------------ Crawler
\* the links of this web: pages that can be read, and files
Pages == {"p1", "p2"}
Files == {"f1"}
Links == Pages \cup Files

\* what context.read(link) does for a page: it returns the content, raises
\* Context.Error (a failed checksum, a RequestException wrapped by
\* RequestsContext.open), or raises something else (UrllibContext.open
\* hands on the URLError of urlopen as it is)
ReadOutcomes == {"content", "ContextError", "URLError"}

\* a page: the links PageParser.links finds in it, the ones
\* PageParser.rel_links finds, and what reading it does
PageContents ==
  [links: BoundedSubsets(Links, MaxHrefs), rels: BoundedSubsets(Pages, MaxRels),
   read: ReadOutcomes]

\* crawl(context, link) of lines 58-86: (links, rels) of the page; an error
\* that crawl_remote catches gives (set(), set())
CrawlLinks(page) == IF page.read = "content" THEN page.links ELSE {}
CrawlRels(page) == IF page.read = "content" THEN page.rels ELSE {}

\* the rels execute() goes through: `if follow_links: for rel in rels`
FollowedRelsAlways(follow, rels) == rels
FollowedRels(follow, rels) == IF follow THEN rels ELSE {}

\* a worker thread at the top of execute()
AtGet == [pc |-> "get", link |-> "p1", rels |-> {}]

At(w, where) == cr_worker[w].pc = where

Goto(w, where) == cr_worker' = [cr_worker EXCEPT ![w].pc = where]

\* `while not converged.is_set(): link = queue.get(timeout=0.1)`; on Empty
\* the loop just comes round again
WorkerGet(w) ==
  /\ At(w, "get")
  /\ IF cr_converged
     THEN /\ Goto(w, "exit")
          /\ UNCHANGED cr_queue
     ELSE /\ cr_queue # <<>>
          /\ cr_worker' = [cr_worker EXCEPT ![w].pc = "check",
                                            ![w].link = Head(cr_queue)]
          /\ cr_queue' = Tail(cr_queue)
  /\ UNCHANGED <<resolver, fetcher, iterator, rest, cr_page, cr_seeds, cr_follow, cr_threads,
                 cr_unfinished, cr_seen, cr_links, cr_fetches, cr_converged,
                 cr_main>>

\* `if link not in seen:` (line 105)
WorkerCheck(w) ==
  /\ At(w, "check")
  /\ Goto(w, IF cr_worker[w].link \notin cr_seen THEN "add" ELSE "task_done")
  /\ UNCHANGED <<resolver, fetcher, iterator, rest, cr_page, cr_seeds, cr_follow, cr_threads, cr_queue,
                 cr_unfinished, cr_seen, cr_links, cr_fetches, cr_converged,
                 cr_main>>

\* `seen.add(link)` (line 106)
WorkerAdd(w) ==
  /\ At(w, "add")
  /\ cr_seen' = cr_seen \cup {cr_worker[w].link}
  /\ Goto(w, "crawl")
  /\ UNCHANGED <<resolver, fetcher, iterator, rest, cr_page, cr_seeds, cr_follow, cr_threads, cr_queue,
                 cr_unfinished, cr_links, cr_fetches, cr_converged, cr_main>>

\* `roots, rels = crawl(self.context, link); links.update(roots)` (lines
\* 107-108).  An exception crawl() does not catch ends the thread.
WorkerCrawl(w) ==
  LET link == cr_worker[w].link
      page == cr_page[link]
  IN /\ At(w, "crawl")
     /\ cr_fetches' = [cr_fetches EXCEPT ![link] = @ + 1]
     /\ IF page.read = "URLError"
        THEN /\ Goto(w, "dead")
             /\ UNCHANGED cr_links
        ELSE /\ cr_links' = cr_links \cup CrawlLinks(page)
             /\ cr_worker' =
                  [cr_worker EXCEPT ![w].pc = "put",
                     ![w].rels = FollowedRels(cr_follow, CrawlRels(page))]
     /\ UNCHANGED <<resolver, fetcher, iterator, rest, cr_page, cr_seeds, cr_follow, cr_threads,
                    cr_queue, cr_unfinished, cr_seen, cr_converged, cr_main>>

\* one iteration of `for rel in rels: if rel not in seen: queue.put(rel)`
\* (lines 110-112); a set is gone through in any order
WorkerPut(w) ==
  /\ At(w, "put")
  /\ IF cr_worker[w].rels = {}
     THEN /\ Goto(w, "task_done")
          /\ UNCHANGED <<cr_queue, cr_unfinished>>
     ELSE \E rel \in cr_worker[w].rels :
          /\ cr_worker' = [cr_worker EXCEPT ![w].rels = @ \ {rel}]
          /\ IF rel \notin cr_seen
             THEN /\ cr_queue' = Append(cr_queue, rel)
                  /\ cr_unfinished' = cr_unfinished + 1
             ELSE UNCHANGED <<cr_queue, cr_unfinished>>
  /\ UNCHANGED <<resolver, fetcher, iterator, rest, cr_page, cr_seeds, cr_follow, cr_threads, cr_seen,
                 cr_links, cr_fetches, cr_converged, cr_main>>

\* `queue.task_done()` (line 113)
WorkerTaskDone(w) ==
  /\ At(w, "task_done")
  /\ cr_unfinished' = cr_unfinished - 1
  /\ Goto(w, "get")
  /\ UNCHANGED <<resolver, fetcher, iterator, rest, cr_page, cr_seeds, cr_follow, cr_threads, cr_queue,
                 cr_seen, cr_links, cr_fetches, cr_converged, cr_main>>

\* Queue.join() returns when every put has had its task_done: it waits for
\* the count of unfinished tasks, not for the queue to be empty
JoinOnEmpty(queue, unfinished) == queue = <<>>
Join(queue, unfinished) == unfinished = 0

\* `queue.join(); converged.set()` (lines 125-126)
MainJoin ==
  /\ cr_main = "join"
  /\ Join(cr_queue, cr_unfinished)
  /\ cr_converged' = TRUE
  /\ cr_main' = "workers"
  /\ UNCHANGED <<resolver, fetcher, iterator, rest, cr_page, cr_seeds, cr_follow, cr_threads, cr_queue,
                 cr_unfinished, cr_seen, cr_links, cr_worker, cr_fetches>>

\* `for worker in workers: worker.join()` and `return links` (lines 128-131)
MainReturn ==
  /\ cr_main = "workers"
  /\ \A w \in cr_threads : cr_worker[w].pc \in {"exit", "dead"}
  /\ cr_main' = "returned"
  /\ UNCHANGED <<resolver, fetcher, iterator, rest, cr_page, cr_seeds, cr_follow, cr_threads, cr_queue,
                 cr_unfinished, cr_seen, cr_links, cr_worker, cr_fetches,
                 cr_converged>>

\* Crawler(threads=n).crawl(seeds, follow_links) once the seeds are queued
\* (lines 115-116) and the workers are started (lines 118-123)
InitCrawl ==
  /\ index = {}
  /\ cache_dir = {}
  /\ cache_ttl = FALSE
  /\ cache_fresh = {}
  /\ requested = <<>>
  /\ FreshSet
  /\ calls = 0
  /\ pc = "none"
  /\ work = <<>>
  /\ ResolveLocals
  /\ cr_page \in [Pages -> PageContents]
  /\ cr_seeds \in BoundedSeqs(Pages, MaxSeeds) \ {<<>>}
  /\ cr_follow \in BOOLEAN
  /\ cr_threads \in {1..n : n \in 1..MaxThreads}
  /\ cr_queue = cr_seeds
  /\ cr_unfinished = Len(cr_seeds)
  /\ cr_seen = {}
  /\ cr_links = {}
  /\ cr_worker = [w \in cr_threads |-> AtGet]
  /\ cr_fetches = [p \in Pages |-> 0]
  /\ cr_converged = FALSE
  /\ cr_main = "join"
  /\ NoFetch
  /\ NoIterator
  /\ NoRest

NextCrawl ==
  \/ \E w \in cr_threads : WorkerGet(w)
  \/ \E w \in cr_threads : WorkerCheck(w)
  \/ \E w \in cr_threads : WorkerAdd(w)
  \/ \E w \in cr_threads : WorkerCrawl(w)
  \/ \E w \in cr_threads : WorkerPut(w)
  \/ \E w \in cr_threads : WorkerTaskDone(w)
  \/ MainJoin
  \/ MainReturn

SpecCrawl == InitCrawl /\ [][NextCrawl]_vars

\* the threads of a crawl are scheduled fairly: a worker thread that can
\* take its next step takes it, and so does the thread that called crawl()
WorkerStep(w) ==
  /\ w \in cr_threads
  /\ \/ WorkerGet(w)
     \/ WorkerCheck(w)
     \/ WorkerAdd(w)
     \/ WorkerCrawl(w)
     \/ WorkerPut(w)
     \/ WorkerTaskDone(w)

FairCrawl ==
  /\ \A w \in 1..MaxThreads : WF_vars(WorkerStep(w))
  /\ WF_vars(MainJoin)
  /\ WF_vars(MainReturn)

FairSpecCrawl == InitCrawl /\ [][NextCrawl]_vars /\ FairCrawl

\* the pages a crawl from the set S gets to: S, and with follow_links the
\* pages the rel links of those pages lead to
RECURSIVE Visited(_, _)
Visited(S, follow) ==
  LET T == IF follow THEN S \cup UNION {CrawlRels(cr_page[p]) : p \in S} ELSE S
  IN IF T = S THEN S ELSE Visited(T, follow)

\* ------------------------------------------------------------------ Context.fetch
\* target = os.path.join(into, link.filename): a file name is a pair, of
\* the name proper and the suffix put after it (0: none)
Target == <<"foo-1.tar.gz", 0>>

\* target_tmp = '%s.%s' % (target, uuid.uuid4()), for the uuid u
TmpNameSame(target, u) == target
TmpName(target, u) == <<target[1], u>>

\* the uuid a process draws: no two processes draw the same
Uuid(p) == p

\* os.path.exists(name)
Exists(name) == name \in DOMAIN ft_files

Step(p, where) == ft_pc' = [ft_pc EXCEPT ![p] = where]

\* `if os.path.exists(target): return target` (lines 62-64)
FetchExists(p) ==
  /\ ft_pc[p] = "exists"
  /\ Step(p, IF Exists(Target) THEN "returned" ELSE "open")
  /\ UNCHANGED <<resolver, crawler, iterator, rest, ft_files>>

\* `self.open(link)` and `safe_open(target_tmp, 'wb')` (lines 67-69): the
\* transport may raise; safe_open leaves an empty file
FetchOpen(p) ==
  /\ ft_pc[p] = "open"
  /\ \/ /\ Step(p, "raised")
        /\ UNCHANGED ft_files
     \/ /\ ft_files' = Put(ft_files, TmpName(Target, Uuid(p)), 0)
        /\ Step(p, "copy")
  /\ UNCHANGED <<resolver, crawler, iterator, rest>>

\* shutil.copyfileobj(in_fp, out_fp) (line 70): one chunk is read and
\* written, or the read raises; after the last chunk the read that finds
\* the end of the stream returns and both files are closed, or it raises
\* (StreamFilelike._validate: a failed checksum)
FetchCopy(p) ==
  LET tmp == TmpName(Target, Uuid(p)) IN
  /\ ft_pc[p] = "copy"
  /\ IF ft_files[tmp] = MaxChunks
     THEN /\ \E validated \in BOOLEAN :
               Step(p, IF validated THEN "rename" ELSE "raised")
          /\ UNCHANGED ft_files
     ELSE \/ /\ ft_files' = [ft_files EXCEPT ![tmp] = @ + 1]
             /\ UNCHANGED ft_pc
          \/ /\ Step(p, "raised")
             /\ UNCHANGED ft_files
  /\ UNCHANGED <<resolver, crawler, iterator, rest>>

\* os.rename(target_tmp, target) (line 72): the name target_tmp goes away and
\* target holds what it held; where rename does not replace an existing file
\* (Windows) it raises instead
FetchRename(p) ==
  LET tmp == TmpName(Target, Uuid(p)) IN
  /\ ft_pc[p] = "rename"
  /\ \/ /\ ft_files' = [n \in (DOMAIN ft_files \ {tmp}) \cup {Target} |->
                           IF n = Target THEN ft_files[tmp] ELSE ft_files[n]]
        /\ Step(p, "returned")
     \/ /\ Exists(Target)
        /\ Step(p, "raised")
        /\ UNCHANGED ft_files
  /\ UNCHANGED <<resolver, crawler, iterator, rest>>

\* one to MaxFetchers processes call fetch(link, into) for the same link and
\* directory; the directory may hold the file from an earlier fetch
InitFetch ==
  /\ index = {}
  /\ cache_dir = {}
  /\ cache_ttl = FALSE
  /\ cache_fresh = {}
  /\ requested = <<>>
  /\ FreshSet
  /\ calls = 0
  /\ pc = "none"
  /\ work = <<>>
  /\ ResolveLocals
  /\ NoCrawl
  /\ ft_files \in {<<>>, Put(<<>>, Target, MaxChunks)}
  /\ ft_pc \in {[p \in 1..n |-> "exists"] : n \in 1..MaxFetchers}
  /\ NoIterator
  /\ NoRest

NextFetch ==
  \/ \E p \in DOMAIN ft_pc : FetchExists(p)
  \/ \E p \in DOMAIN ft_pc : FetchOpen(p)
  \/ \E p \in DOMAIN ft_pc : FetchCopy(p)
  \/ \E p \in DOMAIN ft_pc : FetchRename(p)

SpecFetch == InitFetch /\ [][NextFetch]_vars

\* ------------------------------------------------------------------ Iterator and options
\* the package links a crawl for foo may find: wheels, eggs and sdists;
\* `foreign` tells two files of one version and type apart (their tags)
Found ==
  {p \in [name: {"foo"}, version: Versions,
          variant: {"Wheel", "Egg", "Source"}, foreign: BOOLEAN,
          local: BOOLEAN] : p.variant = "Source" => ~p.foreign}

\* the tuples an Iterator may be constructed with
Precedences ==
  UNION {Orderings(S) : S \in SUBSET {"Wheel", "Egg", "Source"}}

\* Iterator.package_precedence(package, precedence): the key
\* (version, type rank, local), as one number that orders as the tuple does
PackagePrecedence(package, precedence) ==
  8 * package.version + 2 * (PackageTypePrecedence(package, precedence) + 1)
    + (IF package.local THEN 1 ELSE 0)

\* where sorted(key=..., reverse=True) puts x in the sorted list t: behind
\* every member whose key is not smaller (a stable sort)
RECURSIVE InsertDescending(_, _, _)
InsertDescending(t, x, precedence) ==
  IF t = <<>> THEN <<x>>
  ELSE IF PackagePrecedence(Head(t), precedence)
            >= PackagePrecedence(x, precedence)
       THEN <<Head(t)>> \o InsertDescending(Tail(t), x, precedence)
       ELSE <<x>> \o t

\* Iterator._sort(package_list)
RECURSIVE IteratorSort(_, _)
IteratorSort(list, precedence) ==
  IF list = <<>> THEN <<>>
  ELSE InsertDescending(IteratorSort(SubSeq(list, 1, Len(list) - 1), precedence),
                        list[Len(list)], precedence)

\* Iterator._iter_unordered(req) over the links the crawl returned:
\* _translate_href keeps the types of the precedence tuple, then satisfies
IterUnordered(hrefs, req, precedence) ==
  SelectSeq2(hrefs, {p \in Range(hrefs) :
                       p.variant \in Range(precedence) /\ satisfies(p, req)})

\* Iterator.iter(req)
Iter(hrefs, req, precedence) ==
  IteratorSort(IterUnordered(hrefs, req, precedence), precedence)

\* the precedence tuple without / with a type, as the builder methods
\* no_use_wheel, no_allow_builds, use_wheel and allow_builds compute it
Without(precedence, type) ==
  SelectSeq2(precedence, Range(precedence) \ {type})

OptionStep(precedence) ==
  /\ it_pc = "builder"
  /\ it_builder' = precedence
  /\ UNCHANGED <<resolver, crawler, fetcher, rest, it_precedence, it_via, it_hrefs,
                 it_req, it_out, it_pc>>

\* ResolverOptionsBuilder.use_wheel
UseWheel ==
  OptionStep(IF "Wheel" \notin Range(it_builder)
             THEN <<"Wheel">> \o it_builder ELSE it_builder)

\* ResolverOptionsBuilder.no_use_wheel
NoUseWheel == OptionStep(Without(it_builder, "Wheel"))

\* ResolverOptionsBuilder.allow_builds
AllowBuilds ==
  OptionStep(IF "Source" \notin Range(it_builder)
             THEN it_builder \o <<"Source">> ELSE it_builder)

\* ResolverOptionsBuilder.no_allow_builds
NoAllowBuilds == OptionStep(Without(it_builder, "Source"))

\* Iterator.__init__: `precedence or self.DEFAULT_PACKAGE_PRECEDENCE`
IteratorPrecedence(precedence) ==
  IF precedence = <<>> THEN DEFAULT_PACKAGE_PRECEDENCE ELSE precedence

\* builder.build(key).get_iterator(): ResolverOptions keeps the builder's
\* precedence, and get_iterator constructs the Iterator from fetchers,
\* crawler and follow_links, without a precedence
GetIterator ==
  /\ it_pc = "builder"
  /\ it_precedence' = IteratorPrecedence(<<>>)
  /\ it_via' = "options"
  /\ it_pc' = "iterator"
  /\ UNCHANGED <<resolver, crawler, fetcher, rest, it_builder, it_hrefs, it_req,
                 it_out>>

\* Iterator(precedence=...) constructed by a client itself
NewIterator ==
  /\ it_pc = "builder"
  /\ \E precedence \in Precedences :
       it_precedence' = IteratorPrecedence(precedence)
  /\ it_via' = "direct"
  /\ it_pc' = "iterator"
  /\ UNCHANGED <<resolver, crawler, fetcher, rest, it_builder, it_hrefs, it_req,
                 it_out>>

\* list(iterator.iter(req))
IterCall ==
  /\ it_pc = "iterator"
  /\ it_out' = Iter(it_hrefs, it_req, it_precedence)
  /\ it_pc' = "done"
  /\ UNCHANGED <<resolver, crawler, fetcher, rest, it_builder, it_precedence,
                 it_via, it_hrefs, it_req>>

\* a new ResolverOptionsBuilder (its precedence is the default), a
\* requirement for foo, and the links a crawl for it returns, in any order
InitIter ==
  /\ index = {}
  /\ cache_dir = {}
  /\ cache_ttl = FALSE
  /\ cache_fresh = {}
  /\ requested = <<>>
  /\ FreshSet
  /\ calls = 0
  /\ pc = "none"
  /\ work = <<>>
  /\ ResolveLocals
  /\ NoCrawl
  /\ NoFetch
  /\ it_builder = DEFAULT_PACKAGE_PRECEDENCE
  /\ it_precedence = <<>>
  /\ it_via = "none"
  /\ it_hrefs \in UNION {Orderings(S) : S \in BoundedSubsets(Found, MaxFound)}
  /\ it_req \in {r \in Requested : r.name = "foo"}
  /\ it_out = <<>>
  /\ it_pc = "builder"
  /\ NoRest

NextIter ==
  \/ UseWheel
  \/ NoUseWheel
  \/ AllowBuilds
  \/ NoAllowBuilds
  \/ GetIterator
  \/ NewIterator
  \/ IterCall

SpecIter == InitIter /\ [][NextIter]_vars

\* ------------------------------------------------------------------ allow-external
\* project names as they are written: short strings over letters of both
\* cases, an underscore and a dash
Chars == {"a", "A", "_", "-"}

RawNames == UNION {[1..n -> Chars] : n \in 1..MaxName}

\* Requirement.parse accepts a project name that starts with a letter
RequirementNames == {n \in RawNames : n[1] \in {"a", "A"}}

\* str.lower()
Lower(s) == [i \in 1..Len(s) |-> IF s[i] = "A" THEN "a" ELSE s[i]]

\* pkg_resources.safe_name: re.sub('[^A-Za-z0-9.]+', '-', name)
RECURSIVE SafeName(_)
SafeName(s) ==
  IF s = <<>> THEN <<>>
  ELSE IF s[1] \in {"a", "A"} THEN <<s[1]>> \o SafeName(Tail(s))
  ELSE IF Len(s) > 1 /\ s[2] \notin {"a", "A"} THEN SafeName(Tail(s))
  ELSE <<"-">> \o SafeName(Tail(s))

\* the key as the caller wrote the name
RequirementKeyRaw(name) == name

\* ResolvableRequirement.name: requirement.key
RequirementKey(name) == Lower(SafeName(name))

\* ResolverOptionsBuilder.allow_external(key)
AllowExternal(key) ==
  /\ ex_pc = "builder"
  /\ Cardinality(ex_asked) < MaxAllowed
  /\ key \notin ex_asked
  /\ ex_allow' = ex_allow \cup {Lower(SafeName(key))}
  /\ ex_asked' = ex_asked \cup {key}
  /\ UNCHANGED <<resolver, crawler, fetcher, iterator, stream, dispatch,
                 markers, reqfile, bd_last, others, ex_allow_all, ex_name, ex_follow, ex_pc>>

\* ResolverOptionsBuilder.allow_all_external()
AllowAllExternal ==
  /\ ex_pc = "builder"
  /\ ex_allow_all' = TRUE
  /\ UNCHANGED <<resolver, crawler, fetcher, iterator, stream, dispatch,
                 markers, reqfile, bd_last, others, ex_allow, ex_asked, ex_name, ex_follow,
                 ex_pc>>

\* ResolverOptionsBuilder.build(resolvable.name) for a requirement
BuildOptions(name) ==
  /\ ex_pc = "builder"
  /\ ex_name' = name
  /\ ex_follow' = (ex_allow_all \/ RequirementKey(name) \in ex_allow)
  /\ ex_pc' = "options"
  /\ UNCHANGED <<resolver, crawler, fetcher, iterator, stream, dispatch,
                 markers, reqfile, bd_last, others, ex_allow_all, ex_allow, ex_asked>>

\* ResolverOptions.get_iterator() and the crawl of Iterator.iter: follow_links
\* is the flag the options were built with
CrawlFor ==
  /\ ex_pc = "options"
  /\ ex_pc' = "crawl"
  /\ UNCHANGED <<resolver, crawler, fetcher, iterator, stream, dispatch,
                 markers, reqfile, bd_last, others, ex_allow_all, ex_allow, ex_asked, ex_name,
                 ex_follow>>

\* no Resolver is at work
NoResolver ==
  /\ index = {}
  /\ cache_dir = {}
  /\ cache_ttl = FALSE
  /\ cache_fresh = {}
  /\ requested = <<>>
  /\ FreshSet
  /\ calls = 0
  /\ pc = "none"
  /\ work = <<>>
  /\ ResolveLocals

InitOptions ==
  /\ NoResolver
  /\ NoCrawl
  /\ NoFetch
  /\ NoIterator
  /\ ex_allow_all = FALSE
  /\ ex_allow = {}
  /\ ex_asked = {}
  /\ ex_name = <<>>
  /\ ex_follow = FALSE
  /\ ex_pc = "builder"
  /\ NoStream
  /\ NoDispatch
  /\ NoMarkers
  /\ NoReqfile
  /\ bd_last = NoBuild
  /\ NoOthers

NextOptions ==
  \/ \E key \in RawNames : AllowExternal(key)
  \/ AllowAllExternal
  \/ \E name \in RequirementNames : BuildOptions(name)
  \/ CrawlFor

SpecOptions == InitOptions /\ [][NextOptions]_vars

\* ------------------------------------------------------------------ StreamFilelike
Bytes == {"x", "y"}

Bodies == UNION {[1..n -> Bytes] : n \in 0..MaxBody}

\* the ways iter_content can cut a body into non-empty chunks
RECURSIVE Chunkings(_)
Chunkings(body) ==
  IF body = <<>> THEN {<<>>}
  ELSE UNION {{<<SubSeq(body, 1, n)>> \o rest_ :
                 rest_ \in Chunkings(SubSeq(body, n + 1, Len(body)))} :
              n \in 1..Len(body)}

\* link.md5 of a link without an md5 fragment
NoMd5 == <<>>

\* hashlib.md5 over the bytes it was fed, as a hex digest: a digest stands for
\* the content it was computed from
Md5(content) == <<"md5">> \o content

\* bytes[:length] and bytes[length:], length 0 standing for None
Upto(bytes, length) ==
  IF length = 0 THEN bytes
  ELSE SubSeq(bytes, 1, IF Len(bytes) < length THEN Len(bytes) ELSE length)

From(bytes, length) ==
  IF length = 0 THEN bytes
  ELSE SubSeq(bytes, length + 1, Len(bytes))

\* `while length is None or len(self._bytes) < length` of read(), up to the
\* StopIteration
RECURSIVE ReadLoop(_, _, _, _, _)
ReadLoop(iter, bytes, hash, md5, length) ==
  IF length # 0 /\ Len(bytes) >= length
  THEN [iter |-> iter, bytes |-> bytes, hash |-> hash, stop |-> FALSE]
  ELSE IF iter = <<>>
  THEN [iter |-> iter, bytes |-> bytes, hash |-> hash, stop |-> TRUE]
  ELSE ReadLoop(Tail(iter), bytes \o Head(iter),
                IF md5 # NoMd5 THEN hash \o Head(iter) ELSE hash, md5, length)

\* a _validate that accepts everything
ValidateAccepts(md5, hash) == FALSE

\* _validate raises
ValidateRaises(md5, hash) == md5 # NoMd5 /\ md5 # Md5(hash)

\* one call of StreamFilelike.read(length) by a reader that reads until a
\* read returns nothing (a single call when length is None)
Read ==
  /\ sf_pc = "reading"
  /\ LET r == ReadLoop(sf_iterator, sf_bytes, sf_hash, sf_md5, sf_length)
         chunk == Upto(r.bytes, sf_length)
     IN /\ sf_iterator' = r.iter
        /\ sf_hash' = r.hash
        /\ IF r.stop /\ ValidateRaises(sf_md5, r.hash)
           THEN /\ sf_bytes' = r.bytes
                /\ sf_pc' = "raised"
                /\ UNCHANGED sf_got
           ELSE /\ sf_bytes' = From(r.bytes, sf_length)
                /\ sf_got' = sf_got \o chunk
                /\ sf_pc' = IF sf_length = 0 \/ chunk = <<>>
                            THEN "eof" ELSE "reading"
  /\ UNCHANGED <<resolver, crawler, fetcher, iterator, externals, dispatch,
                 markers, reqfile, bd_last, others, sf_md5, sf_body, sf_length>>

InitStream ==
  /\ NoResolver
  /\ NoCrawl
  /\ NoFetch
  /\ NoIterator
  /\ NoExternals
  /\ sf_body \in Bodies
  /\ sf_iterator \in Chunkings(sf_body)
  /\ sf_bytes = <<>>
  /\ sf_hash = <<>>
  /\ sf_md5 \in {NoMd5} \cup {Md5(content) : content \in Bodies}
  /\ sf_length \in 0..MaxLength
  /\ sf_got = <<>>
  /\ sf_pc = "reading"
  /\ NoDispatch
  /\ NoMarkers
  /\ NoReqfile
  /\ bd_last = NoBuild
  /\ NoOthers

NextStream == Read

SpecStream == InitStream /\ [][NextStream]_vars

\* ------------------------------------------------------------------ Resolvable.get
\* strings a caller hands to Resolvable.get
Strings ==
  {"git+http://github.com/wickman/pex", "foo-2.3.4.tar.gz", "foo[bar]==2.3.4",
   "foo", "-e .", ""}

\* the strings that start with '<vcs>+' for a vcs of COMPATIBLE_VCS
VcsUrls == {"git+http://github.com/wickman/pex"}

\* the strings Package.from_href makes a package of
PackageHrefs == {"foo-2.3.4.tar.gz"}

\* the strings Requirement.parse accepts; a file name is made of the
\* characters of a project name
RequirementStrings == {"foo-2.3.4.tar.gz", "foo[bar]==2.3.4", "foo"}

\* the registry with the package and requirement forms in the other order
REGISTRY_SWAPPED ==
  <<"ResolvableRepository", "ResolvableRequirement", "ResolvablePackage">>

\* Resolvable._REGISTRY after the three register() calls
REGISTRY ==
  <<"ResolvableRepository", "ResolvablePackage", "ResolvableRequirement">>

\* impl.from_string(s) returns a resolvable (TRUE) or raises
\* InvalidRequirement (FALSE)
FromString(impl, s) ==
  CASE impl = "ResolvableRepository" -> FALSE
    [] impl = "ResolvablePackage" -> s \in PackageHrefs
    [] impl = "ResolvableRequirement" -> s \in RequirementStrings

\* the loop of Resolvable.get over a registry
RECURSIVE GetFrom(_, _)
GetFrom(registry, s) ==
  IF registry = <<>> THEN "InvalidRequirement"
  ELSE IF FromString(Head(registry), s) THEN Head(registry)
  ELSE GetFrom(Tail(registry), s)

\* Resolvable.get(s): the form of the resolvable returned, or the error raised
ResolvableGet(s) == GetFrom(REGISTRY, s)

\* one item of map(translate, iterable) in resolvables_from_iterable
Translate ==
  /\ rv_pc = "map"
  /\ rv_iterable # <<>>
  /\ LET s == Head(rv_iterable)
         got == ResolvableGet(s)
     IN IF got = "InvalidRequirement"
        THEN /\ rv_pc' = "raised"
             /\ UNCHANGED <<rv_iterable, rv_out>>
        ELSE /\ rv_out' = Append(rv_out, <<got, s>>)
             /\ rv_iterable' = Tail(rv_iterable)
             /\ UNCHANGED rv_pc
  /\ UNCHANGED <<resolver, crawler, fetcher, iterator, externals, stream,
                 markers, reqfile, bd_last, others>>

\* the end of the iterable: the list is returned
TranslateReturn ==
  /\ rv_pc = "map"
  /\ rv_iterable = <<>>
  /\ rv_pc' = "returned"
  /\ UNCHANGED <<resolver, crawler, fetcher, iterator, externals, stream,
                 markers, reqfile, bd_last, others, rv_iterable, rv_out>>

InitDispatch ==
  /\ NoResolver
  /\ NoCrawl
  /\ NoFetch
  /\ NoIterator
  /\ NoExternals
  /\ NoStream
  /\ rv_iterable \in UNION {[1..n -> Strings] : n \in 0..MaxItems}
  /\ rv_out = <<>>
  /\ rv_pc = "map"
  /\ NoMarkers
  /\ NoReqfile
  /\ bd_last = NoBuild
  /\ NoOthers

NextDispatch ==
  \/ Translate
  \/ TranslateReturn

SpecDispatch == InitDispatch /\ [][NextDispatch]_vars

\* ------------------------------------------------------------------ pep426
\* the tokens of a chain of unary expressions: String('') and
\* String('hello') joined by Token('and') and Token('or')
Atoms == {"''", "'hello'"}
Connectives == {"and", "or"}

Chains ==
  UNION {{t \in [1..(2 * n - 1) -> Atoms \cup Connectives] :
            \A i \in 1..(2 * n - 1) :
              IF i % 2 = 1 THEN t[i] \in Atoms ELSE t[i] \in Connectives} :
         n \in 1..MaxAtoms}

\* eval_subexpr of a String that no operator follows: bool(expr0value)
Truth(token) == IF token = "''" THEN "False" ELSE "True"

\* a reduction that folds the other connective first
TokenOr == "or"

\* Token('and') of _reduce_statements
TokenAnd == "and"

\* x and y, on the booleans of `statements`
PyAnd(x, y) == IF x = "False" THEN x ELSE y

\* statements[k - 1:k + 2] = [value], k counted from 1
Splice(statements, k, value) ==
  SubSeq(statements, 1, k - 2) \o <<value>>
    \o SubSeq(statements, k + 2, Len(statements))

\* any(statements[::2])
AnyEven(statements) ==
  \E i \in DOMAIN statements : i % 2 = 1 /\ statements[i] = "True"

\* one round of `while True` in _split_statements (lines 151-171)
SplitStatement ==
  /\ mk_pc = "split"
  /\ LET value == Truth(mk_tokens[mk_offset + 1])
         offset == mk_offset + 1
     IN /\ mk_evaluated' = mk_evaluated \cup {mk_offset + 1}
        /\ IF Len(mk_tokens) = offset
           THEN /\ mk_statements' = Append(mk_statements, value)
                /\ mk_offset' = offset
                /\ mk_pc' = "reduce"
                /\ mk_k' = Len(mk_statements')
           ELSE IF mk_tokens[offset + 1] \in Connectives
           THEN /\ mk_statements' =
                     mk_statements \o <<value, mk_tokens[offset + 1]>>
                /\ mk_offset' = offset + 1
                /\ UNCHANGED <<mk_pc, mk_k>>
           ELSE /\ mk_statements' = Append(mk_statements, value)
                /\ mk_offset' = offset
                /\ mk_pc' = "reduce"
                /\ mk_k' = Len(mk_statements')
  /\ UNCHANGED <<resolver, crawler, fetcher, iterator, externals, stream,
                 dispatch, reqfile, bd_last, others, mk_tokens, mk_value>>

\* one round of `for k in reversed(range(len(statements)))` in
\* _reduce_statements (lines 140-142); mk_k is k + 1
ReduceStatement ==
  /\ mk_pc = "reduce"
  /\ mk_k >= 1
  /\ IF mk_k > Len(mk_statements)
     THEN /\ mk_pc' = "IndexError"
          /\ UNCHANGED <<mk_statements, mk_k>>
     ELSE /\ mk_k' = mk_k - 1
          /\ UNCHANGED mk_pc
          /\ IF mk_statements[mk_k] = TokenAnd
             THEN mk_statements' =
                    Splice(mk_statements, mk_k,
                           PyAnd(mk_statements[mk_k - 1],
                                 mk_statements[mk_k + 1]))
             ELSE UNCHANGED mk_statements
  /\ UNCHANGED <<resolver, crawler, fetcher, iterator, externals, stream,
                 dispatch, reqfile, bd_last, others, mk_tokens, mk_offset,
                 mk_evaluated, mk_value>>

\* `return any(statements[::2])` (line 143)
ReduceReturn ==
  /\ mk_pc = "reduce"
  /\ mk_k = 0
  /\ mk_value' = AnyEven(mk_statements)
  /\ mk_pc' = "done"
  /\ UNCHANGED <<resolver, crawler, fetcher, iterator, externals, stream,
                 dispatch, reqfile, bd_last, others, mk_tokens, mk_offset,
                 mk_statements, mk_evaluated, mk_k>>

InitMarker ==
  /\ NoResolver
  /\ NoCrawl
  /\ NoFetch
  /\ NoIterator
  /\ NoExternals
  /\ NoStream
  /\ NoDispatch
  /\ mk_tokens \in Chains
  /\ mk_offset = 0
  /\ mk_statements = <<>>
  /\ mk_evaluated = {}
  /\ mk_k = 0
  /\ mk_value = FALSE
  /\ mk_pc = "split"
  /\ NoReqfile
  /\ bd_last = NoBuild
  /\ NoOthers

NextMarker ==
  \/ SplitStatement
  \/ ReduceStatement
  \/ ReduceReturn

SpecMarker == InitMarker /\ [][NextMarker]_vars

\* ------------------------------------------------------------------ RequirementsTxt
\* the lines of requirements files, as <<kind, parameter>>: the kind is the
\* branch of _process_one_line the line takes
DirectiveLines ==
  {<<"--index-url", "http://u1">>, <<"--extra-index-url", "http://u1">>,
   <<"--find-links", "http://u1">>, <<"--no-index", "">>}

RequirementLines == {<<"requirement", "foo">>, <<"requirement", "bar">>}

CommentLines == {<<"#", "">>}

\* the files: the one that is parsed, a file it may name, and a file that
\* one may name
RootLines ==
  DirectiveLines \cup RequirementLines \cup CommentLines
    \cup {<<"-r", "a.txt">>}

NestedLines ==
  [a |-> RequirementLines \cup {<<"--find-links", "http://u1">>,
                                <<"-r", "b.txt">>},
   b |-> RequirementLines]

\* PyPIFetcher() of RequirementsTxt.__init__
DefaultFetchers == <<<<"PyPIFetcher", "https://pypi.python.org/simple">>>>

\* isinstance(fetcher, PyPIFetcher)
IsIndex(f) == f[1] = "PyPIFetcher"

\* RequirementsTxt.add_index
AddIndex(fetchers, url) == Append(fetchers, <<"PyPIFetcher", url>>)

\* RequirementsTxt.add_repo
AddRepo(fetchers, repo) == Append(fetchers, <<"Fetcher", repo>>)

\* a clear_indices that keeps the default index
ClearIndicesButDefault(fetchers) ==
  SelectSeq2(fetchers, {f \in Range(fetchers) :
                          ~IsIndex(f) \/ f \in Range(DefaultFetchers)})

\* RequirementsTxt.clear_indices
ClearIndices(fetchers) ==
  SelectSeq2(fetchers, {f \in Range(fetchers) : ~IsIndex(f)})

\* an add that puts the resolvable first
AddFirst(resolvables, resolvable) == <<resolvable>> \o resolvables

\* RequirementsTxt.add
Add(resolvables, resolvable) == Append(resolvables, resolvable)

\* the frame of the from_lines call that is reading: <<file, lines read>>
Top == rq_stack[Len(rq_stack)]

\* the stack with the line the top frame is at counted as read
Advanced ==
  [rq_stack EXCEPT ![Len(rq_stack)] = <<Top[1], Top[2] + 1>>]

\* one call of _process_one_line by the from_lines loop that is reading; a
\* -r line opens the named file and a from_lines loop over it
ProcessOneLine ==
  /\ rq_stack # <<>>
  /\ Top[2] < Len(rq_files[Top[1]])
  /\ LET line == rq_files[Top[1]][Top[2] + 1]
         kind == line[1]
         param == line[2]
     IN /\ rq_last' = line
        /\ rq_before' = rq_fetchers
        /\ rq_fetchers' =
             CASE kind \in {"--index-url", "--extra-index-url"} ->
                    AddIndex(rq_fetchers, param)
               [] kind = "--find-links" -> AddRepo(rq_fetchers, param)
               [] kind = "--no-index" -> ClearIndices(rq_fetchers)
               [] OTHER -> rq_fetchers
        /\ rq_resolvables' =
             IF kind = "requirement" THEN Add(rq_resolvables, param)
             ELSE rq_resolvables
        /\ rq_stack' =
             IF kind = "-r" THEN Append(Advanced, <<param, 0>>) ELSE Advanced
  /\ UNCHANGED <<resolver, crawler, fetcher, iterator, externals, stream,
                 dispatch, markers, bd_last, others, rq_files>>

\* the end of the lines: from_lines returns to the -r line that called it,
\* or to the caller
FromLinesReturn ==
  /\ rq_stack # <<>>
  /\ Top[2] = Len(rq_files[Top[1]])
  /\ rq_stack' = SubSeq(rq_stack, 1, Len(rq_stack) - 1)
  /\ UNCHANGED <<resolver, crawler, fetcher, iterator, externals, stream,
                 dispatch, markers, bd_last, others, rq_files, rq_resolvables,
                 rq_fetchers, rq_last, rq_before>>

\* the lists of up to n members of S
ListsOf(S, n) == UNION {[1..k -> S] : k \in 0..n}

\* RequirementsTxt.from_file(root) on a new RequirementsTxt; a file no line
\* names is left empty
InitReqfile ==
  /\ NoResolver
  /\ NoCrawl
  /\ NoFetch
  /\ NoIterator
  /\ NoExternals
  /\ NoStream
  /\ NoDispatch
  /\ NoMarkers
  /\ bd_last = NoBuild
  /\ NoOthers
  /\ \E root \in ListsOf(RootLines, MaxRootLines) :
       \E a \in ListsOf(NestedLines.a, MaxNestedLines) :
         \E b \in ListsOf(NestedLines.b, MaxNestedLines) :
           /\ <<"-r", "a.txt">> \notin Range(root) => a = <<>>
           /\ <<"-r", "b.txt">> \notin Range(a) => b = <<>>
           /\ rq_files = [f \in {"root.txt", "a.txt", "b.txt"} |->
                            CASE f = "root.txt" -> root
                              [] f = "a.txt" -> a
                              [] f = "b.txt" -> b]
  /\ rq_stack = <<<<"root.txt", 0>>>>
  /\ rq_resolvables = <<>>
  /\ rq_fetchers = DefaultFetchers
  /\ rq_last = <<>>
  /\ rq_before = <<>>

NextReqfile ==
  \/ ProcessOneLine
  \/ FromLinesReturn

SpecReqfile == InitReqfile /\ [][NextReqfile]_vars

\* ------------------------------------------------------------------ SourceTranslator
\* the file installer.bdist() builds from an unpacked source package: a
\* distribution for the interpreter and platform translate() is asked for
\* ("compatible"), one tagged for another platform or interpreter
\* ("foreign": the build runs on this machine, the target platform is a
\* parameter), or a file whose name Package.from_href does not recognise
\* ("unknown").  tmp marks the file under its temporary name.
ArtifactKinds == {"compatible", "foreign", "unknown"}
Artifacts(p) ==
  [name: {p.name}, version: {p.version}, kind: ArtifactKinds, tmp: {FALSE}]
Installed == UNION {Artifacts(p) : p \in Cached}

\* target_path_tmp = target_path + uuid4().get_hex()
TargetTmp(target) == [target EXCEPT !.tmp = TRUE]

\* what package.fetch() of line 70 does
UnpackOutcomes == {"unpacked", "UnreadableLink"}

\* what installer.bdist() of line 81 does
BdistOutcomes == {"built", "InstallFailure"}

\* `return None`, or the return of line 99, through the finally clause
TranslateReturns(result) ==
  /\ tr_pc' = "returned"
  /\ tr_result' = result

\* everything but the translator
NoTranslating ==
  UNCHANGED <<resolver, crawler, fetcher, iterator, externals, stream,
              dispatch, markers, reqfile, bd_last, rs_query>>

\* translate(package), lines 62-64
TranslateCall ==
  /\ tr_pc \in {"idle", "returned"}
  /\ tr_calls < MaxTranslations
  /\ tr_calls' = tr_calls + 1
  /\ \E package \in Cached :
       /\ tr_package' = package
       /\ IF package.variant # "Source"
          THEN TranslateReturns("None")
          ELSE /\ tr_pc' = "fetch"
               /\ tr_result' = "none"
  /\ tr_dist' = <<>>
  /\ UNCHANGED <<tr_cache, tr_placed>>
  /\ NoTranslating

\* lines 69-73
TranslateFetch ==
  /\ tr_pc = "fetch"
  /\ \E unpacked \in UnpackOutcomes :
       IF unpacked = "UnreadableLink"
       THEN TranslateReturns("None")
       ELSE /\ tr_pc' = "bdist"
            /\ UNCHANGED tr_result
  /\ UNCHANGED <<tr_cache, tr_placed, tr_package, tr_dist, tr_calls>>
  /\ NoTranslating

\* lines 75-84: the installer builds a distribution or fails
TranslateBdist ==
  /\ tr_pc = "bdist"
  /\ \E built \in BdistOutcomes :
       IF built = "InstallFailure"
       THEN /\ TranslateReturns("None")
            /\ UNCHANGED tr_dist
       ELSE \E dist \in Artifacts(tr_package) :
            /\ tr_dist' = dist
            /\ tr_pc' = "place"
            /\ UNCHANGED tr_result
  /\ UNCHANGED <<tr_cache, tr_placed, tr_package, tr_calls>>
  /\ NoTranslating

\* lines 85-92: an existing target is kept (its mtime is updated), else the
\* built file is moved into the install cache under the temporary name
TranslatePlace ==
  /\ tr_pc = "place"
  /\ IF tr_dist \in tr_cache
     THEN /\ tr_pc' = "verify"
          /\ UNCHANGED tr_cache
     ELSE /\ tr_cache' = tr_cache \cup {TargetTmp(tr_dist)}
          /\ tr_pc' = "rename"
  /\ UNCHANGED <<tr_placed, tr_package, tr_dist, tr_calls, tr_result>>
  /\ NoTranslating

\* line 93: os.rename(target_path_tmp, target_path)
TranslateRename ==
  /\ tr_pc = "rename"
  /\ tr_cache' = (tr_cache \ {TargetTmp(tr_dist)}) \cup {tr_dist}
  /\ tr_placed' = tr_placed \cup {tr_dist}
  /\ tr_pc' = "verify"
  /\ UNCHANGED <<tr_package, tr_dist, tr_calls, tr_result>>
  /\ NoTranslating

\* lines 94-99: Package.from_href(target_path) and the compatibility test
TranslateVerify ==
  /\ tr_pc = "verify"
  /\ TranslateReturns(IF tr_dist.kind = "compatible" THEN "dist" ELSE "None")
  /\ UNCHANGED <<tr_cache, tr_placed, tr_package, tr_dist, tr_calls>>
  /\ NoTranslating

\* a SourceTranslator whose install cache holds files of earlier runs
InitTranslate ==
  /\ NoResolver
  /\ NoCrawl
  /\ NoFetch
  /\ NoIterator
  /\ NoExternals
  /\ NoStream
  /\ NoDispatch
  /\ NoMarkers
  /\ NoReqfile
  /\ bd_last = NoBuild
  /\ rs_query = NoQuery
  /\ tr_cache \in BoundedSubsets(Installed, MaxInstalled)
  /\ tr_placed = {}
  /\ tr_package = <<>>
  /\ tr_dist = <<>>
  /\ tr_calls = 0
  /\ tr_result = "none"
  /\ tr_pc = "idle"

NextTranslate ==
  \/ TranslateCall
  \/ TranslateFetch
  \/ TranslateBdist
  \/ TranslatePlace
  \/ TranslateRename
  \/ TranslateVerify

SpecTranslate == InitTranslate /\ [][NextTranslate]_vars

\* ------------------------------------------------------------------ pep426.evaluate
\* the token streams tokenize() gives evaluate(): Strings, the Tokens of
\* _split_statements and eval_expr, and one comparison operator
Parens == {"(", ")"}
Operators == {"=="}
TokenStreams == BoundedSeqs(Atoms \cup Connectives \cup Parens \cup Operators,
                            MaxTokens)

\* isinstance(token, String), and Token.is_operator()
IsString(token) == token \in Atoms
IsOperator(token) == token \in Operators

\* what a call returns: (value, offset), or the exception that leaves it
Returned(value, offset) ==
  [error |-> "none", value |-> value, offset |-> offset]
Raised(kind) == [error |-> kind, value |-> "False", offset |-> 0]

\* eval_subexpr_op for Token('==')
EvalSubexprOp(subexpr0, operator, subexpr1) ==
  IF subexpr0 = subexpr1 THEN "True" ELSE "False"

\* eval_subexpr(tokens), lines 194-212, for tokens[0] a String.  tokens[1]
\* may be a String, which has no is_operator.
EvalSubexpr(tokens) ==
  IF Len(tokens) = 1 THEN Returned(Truth(tokens[1]), 1)
  ELSE IF IsString(tokens[2]) THEN Raised("AttributeError")
  ELSE IF ~IsOperator(tokens[2]) THEN Returned(Truth(tokens[1]), 1)
  ELSE IF Len(tokens) < 3 THEN Raised("ValueError")
  ELSE IF ~IsString(tokens[3]) THEN Raised("ValueError")
  ELSE Returned(EvalSubexprOp(tokens[1], tokens[2], tokens[3]), 3)

\* _reduce_statements(statements), lines 137-143, from k down
RECURSIVE ReduceFrom(_, _)
ReduceFrom(statements, k) ==
  IF k = 0 THEN statements
  ELSE IF statements[k] = TokenAnd
  THEN ReduceFrom(Splice(statements, k,
                         PyAnd(statements[k - 1], statements[k + 1])), k - 1)
  ELSE ReduceFrom(statements, k - 1)

ReduceStatements(statements) ==
  IF AnyEven(ReduceFrom(statements, Len(statements)))
  THEN "True" ELSE "False"

RECURSIVE EvalExpr(_)
RECURSIVE SplitStatements(_, _, _)

\* eval_marker(tokens), lines 174-176
EvalMarker(tokens) ==
  LET split == SplitStatements(tokens, 0, <<>>) IN
  IF split.error # "none" THEN Raised(split.error)
  ELSE Returned(ReduceStatements(split.statements), split.offset)

\* eval_expr(tokens), lines 179-191.  tokens[0] of an empty list and
\* tokens[offset + 1] past the end raise IndexError.
EvalExpr(tokens) ==
  IF tokens = <<>> THEN Raised("IndexError")
  ELSE IF IsString(tokens[1]) THEN EvalSubexpr(tokens)
  ELSE IF tokens[1] # "(" THEN Raised("ValueError")
  ELSE LET marker == EvalMarker(Tail(tokens)) IN
       IF marker.error # "none" THEN marker
       ELSE IF marker.offset + 2 > Len(tokens) THEN Raised("IndexError")
       ELSE IF tokens[marker.offset + 2] # ")" THEN Raised("ValueError")
       ELSE Returned(marker.value, marker.offset + 2)

\* _split_statements(tokens), lines 146-171, from one round of its loop on
SplitStatements(tokens, offset, statements) ==
  LET expr == EvalExpr(SubSeq(tokens, offset + 1, Len(tokens)))
      consumed == offset + expr.offset
      values == Append(statements, expr.value)
      Done == [error |-> "none", statements |-> values, offset |-> consumed]
  IN IF expr.error # "none"
     THEN [error |-> expr.error, statements |-> <<>>, offset |-> 0]
     ELSE IF Len(tokens) = consumed THEN Done
     ELSE IF Len(tokens) < consumed
     THEN [error |-> "ValueError", statements |-> <<>>, offset |-> 0]
     ELSE IF tokens[consumed + 1] \in Connectives
     THEN SplitStatements(tokens, consumed + 1,
                          Append(values, tokens[consumed + 1]))
     ELSE Done

\* evaluate(marker, expression), lines 250-252, on the token stream: the
\* offset eval_marker returns is dropped (it is kept here for the claims)
Evaluate ==
  /\ mk_pc = "evaluate"
  /\ LET marker == EvalMarker(mk_tokens) IN
       /\ mk_pc' = IF marker.error = "none" THEN "done" ELSE marker.error
       /\ mk_value' = (marker.value = "True")
       /\ mk_offset' = marker.offset
  /\ UNCHANGED <<resolver, crawler, fetcher, iterator, externals, stream,
                 dispatch, reqfile, bd_last, others, mk_tokens,
                 mk_statements, mk_evaluated, mk_k>>

InitEvaluate ==
  /\ NoResolver
  /\ NoCrawl
  /\ NoFetch
  /\ NoIterator
  /\ NoExternals
  /\ NoStream
  /\ NoDispatch
  /\ mk_tokens \in TokenStreams
  /\ mk_offset = 0
  /\ mk_statements = <<>>
  /\ mk_evaluated = {}
  /\ mk_k = 0
  /\ mk_value = FALSE
  /\ mk_pc = "evaluate"
  /\ NoReqfile
  /\ bd_last = NoBuild
  /\ NoOthers

NextEvaluate == Evaluate

SpecEvaluate == InitEvaluate /\ [][NextEvaluate]_vars

\* ------------------------------------------------------------------ claims
Terminated == pc \in {"returned", "raised"}

MergedName == last.resolvable.name

\* C1: merge(r, P) on a name with no compatible set recorded yet succeeds for
\* a non-empty P and records exactly P; on a name with a recorded set it
\* records the intersection of the previous set and P; the compatible sets
\* of all other names are unchanged.
C1_MergeRecordsOrIntersects ==
  last.called =>
    LET old == PackagesOf(last.before, MergedName)
        new == PackagesOf(rs_packages, MergedName)
    IN /\ (old = <<>> /\ last.packages # <<>>) =>
            (last.error = "none" /\ Range(new) = Range(last.packages))
       /\ old # <<>> => Range(new) = Range(old) \cap Range(last.packages)
       /\ \A m \in Names \ {MergedName} :
            PackagesOf(rs_packages, m) = PackagesOf(last.before, m)

\* the request [n, n == v] of C2, resolved without a cache
PinnedRequest ==
  /\ Len(requested) = 2
  /\ requested[1].name = requested[2].name
  /\ requested[1].spec = 0
  /\ requested[2].spec # 0
  /\ cache_dir = {}

\* C2: resolving [n, n == v] returns exactly one distribution, n at version
\* v, when the catalog holds a compatible package of n at version v, and
\* raises when it holds none.  (Which exception a failed merge raises is the
\* subject of C4.)
C2_PinnedResolveOutcome ==
  (PinnedRequest /\ pc \in {"returned", "raised", "cut"}) =>
    IF \E p \in index : satisfies(p, requested[2]) /\ compatible(p)
    THEN /\ pc = "returned"
         /\ Len(distributions) = 1
         /\ satisfies(distributions[1], requested[2])
    ELSE pc = "raised"

\* C4: merge(r, P) raises Unsatisfiable if and only if the compatible set it
\* leaves for r.name is empty.
C4_UnsatisfiableIffEmpty ==
  last.called =>
    (last.error = "Unsatisfiable" <=> PackagesOf(rs_packages, MergedName) = <<>>)

C12_FetchAtMostOnce ==
  \A p \in DOMAIN cr_fetches : cr_fetches[p] <= 1

\* C13: crawl(seeds, follow_links) returns exactly the links of the pages it
\* visits: the seeds and, with follow_links, the pages reachable from them
\* through rel links; without follow_links only the seeds are ever visited.
C13_CrawlReturnsVisitedLinks ==
  /\ cr_main = "returned" =>
       cr_links = UNION {CrawlLinks(cr_page[p]) :
                           p \in Visited(Range(cr_seeds), cr_follow)}
  /\ (cr_main # "none" /\ ~cr_follow) => cr_seen \subseteq Range(cr_seeds)

\* a crawl by two threads has returned after following a rel link of a seed
\* to a page that is no seed and has a link
C13_Witness ==
  /\ cr_main = "returned"
  /\ cr_follow
  /\ cr_threads = {1, 2}
  /\ \E p \in cr_seen \ Range(cr_seeds) : CrawlLinks(cr_page[p]) # {}

\* C14: an error while reading a page does not stop the worker that met it:
\* no thread of the crawl ever ends on it.
C14_ErrorKeepsWorkerRunning ==
  \A w \in DOMAIN cr_worker : cr_worker[w].pc # "dead"

\* C15: while processes fetch the same link into the same directory, the
\* target path either does not exist or holds the complete content: content
\* that is not complete is only ever under another name.
C15_TargetAbsentOrComplete ==
  Exists(Target) => ft_files[Target] = MaxChunks

\* two processes are past the exists() test, one has renamed its complete
\* copy to the target while the other's temporary file is still partial
C15_Witness ==
  /\ Exists(Target)
  /\ \E p, q \in DOMAIN ft_pc :
       /\ ft_pc[p] = "returned"
       /\ ft_pc[q] = "copy"
       /\ ft_files[TmpName(Target, Uuid(q))] < MaxChunks

\* the candidates of the last merge of resolve(), which were looked up in
\* the cache directory as it was at the start
LastLookup == last.called /\ pc \in {"phaseA", "raised"} /\ rounds = 0

CacheHit(r) == \E p \in cache_dir : satisfies(p, r)

C19_IterOrdered ==
  it_pc = "done" =>
    /\ \A i, j \in DOMAIN it_out :
         i < j => PackagePrecedence(it_out[i], it_precedence)
                    >= PackagePrecedence(it_out[j], it_precedence)
    /\ \A hrefs \in Orderings(Range(it_hrefs)) :
         Iter(hrefs, it_req, it_precedence) = it_out

\* C20: every package yielded by the iterator obtained from the options
\* satisfies the requirement and is of a type in the precedence configured
\* in the options builder.
C20_OptionsIteratorKeepsPrecedence ==
  (it_pc = "done" /\ it_via = "options") =>
    \A i \in DOMAIN it_out :
      /\ satisfies(it_out[i], it_req)
      /\ it_out[i].variant \in Range(it_builder)


C26_AndBindsTighter ==
  mk_pc = "done" =>
    (mk_value <=>
       \E i, j \in DOMAIN mk_tokens :
         /\ i <= j
         /\ i % 2 = 1
         /\ j % 2 = 1
         /\ i = 1 \/ mk_tokens[i - 1] = "or"
         /\ j = Len(mk_tokens) \/ mk_tokens[j + 1] = "or"
         /\ \A m \in i..j :
              IF m % 2 = 1 THEN mk_tokens[m] # "''" ELSE mk_tokens[m] = "and")

\* a chain in which the grouping decides the value was evaluated
C26_Witness ==
  /\ mk_pc = "done"
  /\ mk_tokens = <<"'hello'", "or", "''", "and", "''">>
  /\ mk_value

\* C27: evaluation short-circuits: when the left operand of the first `and`
\* is false, or that of the first `or` is true, the operand to its right is
\* never evaluated.
C27_ShortCircuit ==
  (/\ Len(mk_tokens) >= 3
   /\ \/ mk_tokens[2] = "and" /\ mk_tokens[1] = "''"
      \/ mk_tokens[2] = "or" /\ mk_tokens[1] # "''")
    => 3 \notin mk_evaluated

\* the index fetchers of a list of fetchers
Indexes(fetchers) == SelectSeq2(fetchers, {f \in Range(fetchers) : IsIndex(f)})

\* the repository fetchers of a list of fetchers
Repositories(fetchers) ==
  SelectSeq2(fetchers, {f \in Range(fetchers) : ~IsIndex(f)})

\* C28: a -i / --index-url line leaves the given index as the only index,
\* and an --extra-index-url line adds the given index to the configured ones.
C28_IndexUrlReplaces ==
  /\ (rq_last # <<>> /\ rq_last[1] = "--index-url") =>
       Indexes(rq_fetchers) = <<<<"PyPIFetcher", rq_last[2]>>>>
  /\ (rq_last # <<>> /\ rq_last[1] = "--extra-index-url") =>
       Indexes(rq_fetchers) =
         Append(Indexes(rq_before), <<"PyPIFetcher", rq_last[2]>>)

\* C29: after a --no-index line there is no index fetcher left, the default
\* one included, and the repositories are kept; an index or repository line
\* adds exactly one fetcher.
C29_NoIndexClearsIndexes ==
  /\ (rq_last # <<>> /\ rq_last[1] = "--no-index") =>
       /\ Indexes(rq_fetchers) = <<>>
       /\ rq_fetchers = Repositories(rq_before)
  /\ (rq_last # <<>>
      /\ rq_last[1] \in {"--index-url", "--extra-index-url", "--find-links"})
       => /\ Len(rq_fetchers) = Len(rq_before) + 1
          /\ SubSeq(rq_fetchers, 1, Len(rq_before)) = rq_before

\* a repository line, --no-index, and an index line after it
C29_Witness ==
  /\ rq_files["root.txt"] =
       <<<<"--find-links", "http://u1">>, <<"--no-index", "">>,
         <<"--index-url", "http://u1">>>>
  /\ rq_stack = <<>>
  /\ Len(rq_fetchers) = 2

\* the resolvables of a file in line order, those of a -r file in the place
\* of its line
RECURSIVE Flat(_, _)
Flat(files, lines) ==
  IF lines = <<>> THEN <<>>
  ELSE (CASE Head(lines)[1] = "requirement" -> <<Head(lines)[2]>>
          [] Head(lines)[1] = "-r" -> Flat(files, files[Head(lines)[2]])
          [] OTHER -> <<>>)
       \o Flat(files, Tail(lines))

\* C30: parsing a requirements file returns the resolvables in line order,
\* those of each -r file at the position of its -r line, recursively.
C30_NestedInLineOrder ==
  rq_stack = <<>> => rq_resolvables = Flat(rq_files, rq_files["root.txt"])

\* a requirement, then a file that names a third file between its own
\* requirements, then a requirement
C30_Witness ==
  /\ rq_stack = <<>>
  /\ rq_files["root.txt"] =
       <<<<"requirement", "foo">>, <<"-r", "a.txt">>, <<"requirement", "foo">>>>
  /\ rq_files["a.txt"] = <<<<"-r", "b.txt">>, <<"requirement", "bar">>>>
  /\ rq_files["b.txt"] = <<<<"requirement", "bar">>, <<"requirement", "foo">>>>
  /\ Len(rq_resolvables) = 5

C32_ExtrasIsUnion ==
  (rs_query.op = "extras" /\ rs_query.at = calls)
    => /\ rs_query.error = "none"
       /\ rs_query.value = ExtrasOf(rs_resolvables, rs_query.name)

\* C33: crawl() gets past queue.join() and returns only when the queue is
\* empty and no worker is processing a link; by then every link that was
\* queued (the seeds, and with follow_links the rel links of every page
\* visited) has been visited, and the links of every visited page are in
\* the returned set.
C33_ReturnsOnlyWhenDone ==
  cr_main \in {"workers", "returned"} =>
    /\ cr_queue = <<>>
    /\ cr_unfinished = 0
    /\ \A w \in cr_threads : cr_worker[w].pc \in {"get", "exit"}
    /\ cr_main = "returned" => \A w \in cr_threads : cr_worker[w].pc = "exit"
    /\ Range(cr_seeds) \subseteq cr_seen
    /\ \A p \in cr_seen :
         /\ cr_follow => CrawlRels(cr_page[p]) \subseteq cr_seen
         /\ CrawlLinks(cr_page[p]) \subseteq cr_links

\* a crawl by two threads of a single seed has returned; the seed's rel link
\* was queued by the worker that read the seed while the other had nothing
\* to do, and the page it leads to was fetched
C33_Witness ==
  /\ cr_main = "returned"
  /\ cr_follow
  /\ cr_threads = {1, 2}
  /\ Len(cr_seeds) = 1
  /\ \E p \in CrawlRels(cr_page[cr_seeds[1]]) \ Range(cr_seeds) :
       cr_fetches[p] >= 1

C36_PlacedOnlyIfCompatible ==
  \A dist \in tr_placed : dist.kind = "compatible"

\* C38: under fair scheduling of its threads a crawl of a finite web of
\* pages, rel-link cycles included, eventually returns, with every worker
\* thread exited.
C38_CrawlReturns ==
  <>(/\ cr_main = "returned"
     /\ \A w \in cr_threads : cr_worker[w].pc = "exit")

\* C39: a fetch that fails while it reads the link leaves no file at the
\* target path: when a fetch has failed and none has got through, the
\* target does not exist, so a later fetch of the link does not find the
\* failed download there.
C39_FailedFetchLeavesNoTarget ==
  (/\ \E p \in DOMAIN ft_pc : ft_pc[p] = "raised"
   /\ \A q \in DOMAIN ft_pc : ft_pc[q] # "returned")
    => ~Exists(Target)

\* one fetch has failed in the middle of the copy and left its temporary
\* file; a later fetch of the same link has found no target and has
\* started a download of its own
C39_Witness ==
  \E p, q \in DOMAIN ft_pc :
    /\ ft_pc[p] = "raised"
    /\ Exists(TmpName(Target, Uuid(p)))
    /\ ft_files[TmpName(Target, Uuid(p))] < MaxChunks
    /\ ft_pc[q] = "copy"
    /\ ~Exists(Target)

\* C40: evaluate() either consumes every token of the expression or raises
\* ValueError: it never returns a truth value with tokens left over, and
\* never fails with another kind of error.
C40_ConsumesAllOrValueError ==
  /\ mk_pc = "done" => mk_offset = Len(mk_tokens)
  /\ mk_pc \notin {"none", "evaluate", "split", "reduce", "done"}
       => mk_pc = "ValueError"

====
